---- MODULE Spec2Model ----
(***************************************************************************)
(* Task-Scheduler: the task store (tasks.json), the lifecycle operations   *)
(* of the GUI front end (src/tasks.py: add_task_data, delete_task_data,    *)
(* mark_complete_data, suggest_edf, called from src/GUI.py) and of the     *)
(* terminal front end (src/OSProject/tasks.py, called from                 *)
(* src/scheduler.py), and the background reminder thread                   *)
(* (src/OSProject/reminder_system.py).                                     *)
(*                                                                         *)
(* A datetime is the number of minutes since 2025-01-10 00:00; its         *)
(* calendar date is the quotient by 1440.  Python's None is the empty      *)
(* tuple and a present optional value v is <<v>>.                          *)
(***************************************************************************)
EXTENDS Integers, Sequences, FiniteSets, TLC

VARIABLES
    frontend,   \* "gui" (src/GUI.py) or "terminal" (src/scheduler.py)
    file,       \* tasks.json: <<>> when absent, else <<store>>
    data,       \* the front end's dict: main_loop's `data`, or the GUI handler's load_data()
    upc,        \* GUI handler position: "idle" (before load_data()) or "loaded"
    rpc,        \* reminder thread position: "sleep" or "loaded"
    rdata,      \* check_reminders' local `data`
    rnow,       \* check_reminders' local `now`
    now,        \* the wall clock, datetime.now()
    last,       \* history: the last operation called and what it returned
    assigned,   \* history: the ids given out by successful adds, in order
    rewardSum,  \* history: the sum of the rewards returned by completions
    reminded,   \* history: the reminders notified, [id, at], in order
    pomo,       \* src/pomodoro.py start_pomodoro_ui: `state`, the callbacks of win.after, the blocker threads
    modal,      \* src/GUI.py start_pomodoro_modal: timer_state, remaining_seconds, the callbacks of win.after
    tpomo,      \* src/OSProject/pomodoro.py start_pomodoro: remaining_seconds and its two threads
    hosts       \* src/OSProject/pomodoro.py start_pomodoro: the hosts file and the position of the call

pomodoros == <<pomo, modal, tpomo, hosts>>

tasksVars == <<frontend, file, data, upc, rpc, rdata, rnow, now, last, assigned, rewardSum, reminded>>

vars == <<frontend, file, data, upc, rpc, rdata, rnow, now, last, assigned, rewardSum, reminded,
          pomo, modal, tpomo, hosts>>

----------------------------------------------------------------------------
(* Bounds and inputs *)

\* successful adds per run
MaxAdds == 2

\* reminders notified per run
MaxReminders == 2

\* blocker threads of one Pomodoro window alive at a time
MaxThreads == 2

\* '+N' lines typed during one terminal Pomodoro
MaxExtends == 1

\* the instants the clock takes: 2025-01-10 08:55, 2025-01-10 23:00, 2025-01-11 00:01
Clock == {535, 1380, 1441}

None == <<>>

EmptyStore == [tasks |-> <<>>, points |-> 0]

\* tasks.json between the open(DATA_FILE, "w") of a save and its json.dump
\* reaching the disk: the file exists and holds the first 0 characters of a text
Truncated == <<EmptyStore, 0>>

\* what the user types into the add form / the add prompts
AddInputs ==
    { [name |-> "report", deadline |-> "2025-01-10 09:00", duration_hours |-> 2, priority |-> 2],
      [name |-> "email",  deadline |-> "2025-01-10 09:00", duration_hours |-> 3, priority |-> 1],
      [name |-> "report", deadline |-> "2025-01-11 00:05", duration_hours |-> 1, priority |-> 1],
      [name |-> "report", deadline |-> "2025-1-10 9:00",   duration_hours |-> 2, priority |-> 2],
      [name |-> "",       deadline |-> "2025-01-10 09:00", duration_hours |-> 2, priority |-> 2],
      [name |-> "report", deadline |-> "2025-01-10 99:00", duration_hours |-> 2, priority |-> 2],
      [name |-> "report", deadline |-> "2025-01-10 09:00", duration_hours |-> 0, priority |-> 2],
      [name |-> "report", deadline |-> "2025-01-10 09:00", duration_hours |-> 2, priority |-> 9] }

\* the inputs of the runs that look at single calls
OpsInputs ==
    { [name |-> "report", deadline |-> "2025-01-10 09:00", duration_hours |-> 2, priority |-> 2],
      [name |-> "report", deadline |-> "2025-01-11 00:05", duration_hours |-> 1, priority |-> 1],
      [name |-> "report", deadline |-> "2025-01-10 99:00", duration_hours |-> 2, priority |-> 2],
      [name |-> "",       deadline |-> "2025-01-10 09:00", duration_hours |-> 2, priority |-> 2] }

\* the inputs of the runs that look at the reminder evaluations
EvalInputs ==
    { [name |-> "report", deadline |-> "2025-01-10 09:00", duration_hours |-> 2, priority |-> 2],
      [name |-> "report", deadline |-> "2025-01-11 00:05", duration_hours |-> 1, priority |-> 1] }

\* the instants of those runs after 08:55: a deadline, and eleven and ten
\* minutes before the other deadline
EvalClock == {540, 1434, 1435}

\* the task dicts of the runs that save and load the text of tasks.json
JsonTasks ==
    LET task == [id |-> 1, name |-> "report", deadline |-> "2025-01-10 09:00",
                 duration_hours |-> 2, priority |-> 2, created_at |-> 535,
                 completed |-> FALSE, completed_at |-> None, reminder_sent |-> FALSE]
    IN  { task,
          [task EXCEPT !.reminder_sent = TRUE],
          [task EXCEPT !.reminder_sent = TRUE, !.completed = TRUE, !.completed_at = <<540>>],
          [task EXCEPT !.id = 2, !.name = "email", !.priority = 1] }

\* the stores of those runs: at most two tasks, of different ids, and the
\* points of a completion where a task is completed
JsonStores ==
    { d \in [tasks  : {<<>>} \cup { <<a>> : a \in JsonTasks }
                      \cup { pair \in JsonTasks \X JsonTasks : pair[1].id # pair[2].id },
             points : {0, 10}] :
        (\E i \in DOMAIN d.tasks : d.tasks[i].completed) => d.points = 10 }

\* the task dicts of the runs that start from a tasks.json written earlier:
\* two tasks alike but for the id, one with the date-only deadline that
\* src/OSProject/scheduler.py writes, one due the next day, one completed
AnyTasks ==
    LET task == [id |-> 1, name |-> "report", deadline |-> "2025-01-10 09:00",
                 duration_hours |-> 2, priority |-> 2, created_at |-> 535,
                 completed |-> FALSE, completed_at |-> None, reminder_sent |-> FALSE]
    IN  { task,
          [task EXCEPT !.id = 2],
          [task EXCEPT !.id = 2, !.deadline = "2025-01-11 00:05", !.priority = 1, !.duration_hours = 1],
          [task EXCEPT !.id = 3, !.deadline = "2025-01-10", !.priority = 1, !.duration_hours = 1],
          [task EXCEPT !.id = 3, !.completed = TRUE, !.completed_at = <<535>>] }

\* the stores of those runs: at most three tasks, of different ids, in any order
AnyStores ==
    { d \in [tasks  : {<<>>} \cup { <<a>> : a \in AnyTasks }
                      \cup (AnyTasks \X AnyTasks) \cup (AnyTasks \X AnyTasks \X AnyTasks),
             points : {0, 10}] :
        /\ \A i, j \in DOMAIN d.tasks : d.tasks[i].id = d.tasks[j].id => i = j
        /\ (d.points = 10) <=> (\E i \in DOMAIN d.tasks : d.tasks[i].completed) }

\* the inputs of the runs with the reminder thread
FewInputs ==
    { [name |-> "report", deadline |-> "2025-01-10 09:00", duration_hours |-> 2, priority |-> 2],
      [name |-> "",       deadline |-> "2025-01-10 09:00", duration_hours |-> 2, priority |-> 2] }

\* the ids the user can select or type
IdInputs == 1 .. MaxAdds

----------------------------------------------------------------------------
(* datetime *)

\* datetime.strptime(s, "%Y-%m-%d %H:%M"): <<minutes>>, or None for ValueError.
\* %m, %d and %H accept one digit; an hour of 99 matches nothing.
strptime(s) ==
    CASE s = "2025-01-10 09:00" -> <<540>>
      [] s = "2025-1-10 9:00"   -> <<540>>
      [] s = "2025-01-11 00:05" -> <<1445>>
      [] OTHER                  -> None

\* dt.strftime("%Y-%m-%d %H:%M"): zero-padded fields
strftime(t) ==
    CASE t = 540  -> "2025-01-10 09:00"
      [] t = 1445 -> "2025-01-11 00:05"

\* dt.date()
date(t) == t \div 1440

parse_date(s) == strptime(s)

----------------------------------------------------------------------------
(* data_handler.py *)

load_data(f) == IF f = <<>> THEN EmptyStore ELSE f[1]

\* The text of tasks.json as the JSON value it spells: <<"object", pairs>> with
\* the <<key, value>> pairs in the order written, <<"array", values>>,
\* <<"number", n>>, <<"string", s>>, <<"true">>, <<"false">>, <<"null">>.
\* A task dict has the key "_reminder_sent" only once check_reminders set it.

json_bool(b) == IF b THEN <<"true">> ELSE <<"false">>

\* json.dump of a task dict without its "_reminder_sent" key
json_dump_task_no_flag(task) ==
    <<"object",
      << <<"id",             <<"number", task.id>> >>,
         <<"name",           <<"string", task.name>> >>,
         <<"deadline",       <<"string", task.deadline>> >>,
         <<"duration_hours", <<"number", task.duration_hours>> >>,
         <<"priority",       <<"number", task.priority>> >>,
         <<"created_at",     <<"string", task.created_at>> >>,
         <<"completed",      json_bool(task.completed)>>,
         <<"completed_at",   IF task.completed_at = None THEN <<"null">>
                             ELSE <<"string", task.completed_at[1]>> >> >> >>

\* json.dump of a task dict
json_dump_task(task) ==
    <<"object",
      << <<"id",             <<"number", task.id>> >>,
         <<"name",           <<"string", task.name>> >>,
         <<"deadline",       <<"string", task.deadline>> >>,
         <<"duration_hours", <<"number", task.duration_hours>> >>,
         <<"priority",       <<"number", task.priority>> >>,
         <<"created_at",     <<"string", task.created_at>> >>,
         <<"completed",      json_bool(task.completed)>>,
         <<"completed_at",   IF task.completed_at = None THEN <<"null">>
                             ELSE <<"string", task.completed_at[1]>> >> >>
      \o (IF task.reminder_sent THEN << <<"_reminder_sent", <<"true">> >> >> ELSE <<>>) >>

\* json.dump(data, f)
json_dump(d) ==
    <<"object",
      << <<"tasks",  <<"array", [i \in DOMAIN d.tasks |-> json_dump_task(d.tasks[i])]>> >>,
         <<"points", <<"number", d.points>> >> >> >>

\* whether a JSON object has the key
json_has(obj, key) == \E i \in DOMAIN obj[2] : obj[2][i][1] = key

\* the value of a key of a JSON object
json_get(obj, key) ==
    obj[2][CHOOSE i \in DOMAIN obj[2] : obj[2][i][1] = key][2]

\* the task dict json.load builds from a JSON object
json_load_task(obj) ==
    [id             |-> json_get(obj, "id")[2],
     name           |-> json_get(obj, "name")[2],
     deadline       |-> json_get(obj, "deadline")[2],
     duration_hours |-> json_get(obj, "duration_hours")[2],
     priority       |-> json_get(obj, "priority")[2],
     created_at     |-> json_get(obj, "created_at")[2],
     completed      |-> json_get(obj, "completed") = <<"true">>,
     completed_at   |-> IF json_get(obj, "completed_at") = <<"null">> THEN None
                        ELSE <<json_get(obj, "completed_at")[2]>>,
     reminder_sent  |-> IF json_has(obj, "_reminder_sent")
                        THEN json_get(obj, "_reminder_sent") = <<"true">>
                        ELSE FALSE]

\* json.load(f)
json_load(text) ==
    LET array == json_get(text, "tasks")[2]
    IN  [tasks  |-> [i \in DOMAIN array |-> json_load_task(array[i])],
         points |-> json_get(text, "points")[2]]

\* load_data() on the text of the file.  SpecJson keeps the text in `file`;
\* the other specifications keep the store that the text spells.
load_text(f) == IF f = <<>> THEN EmptyStore ELSE json_load(f[1])

\* save_data(data) over the file f: the text of the file afterwards
save_text(f, d) == <<json_dump(d)>>

SetMax(S) == CHOOSE m \in S : \A x \in S : x <= m

\* next_id without the "+ 1"
next_id_max(tasks) ==
    IF tasks = <<>> THEN 1
    ELSE SetMax({ tasks[i].id : i \in DOMAIN tasks })

\* next_id returning 0 for an empty list
next_id_from_zero(tasks) ==
    IF tasks = <<>> THEN 0
    ELSE SetMax({ tasks[i].id : i \in DOMAIN tasks }) + 1

\* next_id as the id of the last task plus one
next_id_after_last(tasks) ==
    IF tasks = <<>> THEN 1
    ELSE tasks[Len(tasks)].id + 1

next_id(tasks) ==
    IF tasks = <<>> THEN 1
    ELSE SetMax({ tasks[i].id : i \in DOMAIN tasks }) + 1

----------------------------------------------------------------------------
(* src/tasks.py: the operations the GUI calls.  Each returns               *)
(*   raised : "" or the exception raised                                   *)
(*   data   : the dict after the call (mutated in place)                   *)
(*   save   : <<>> or <<store>>, what save_data wrote                      *)
(*   ret    : the value returned (None when raised)                        *)
(*   reward : the points returned by a completion, else 0                  *)
(*   notify : whether reward_user was called                               *)

\* next((i for i, t in enumerate(tasks) if t["id"] == task_id), None), as an index; 0 for None
find(tasks, task_id) ==
    IF \E i \in DOMAIN tasks : tasks[i].id = task_id
    THEN CHOOSE i \in DOMAIN tasks :
            /\ tasks[i].id = task_id
            /\ \A j \in DOMAIN tasks : tasks[j].id = task_id => i <= j
    ELSE 0

\* list.remove(x): drops the first element equal to x
remove(tasks, x) ==
    LET k == CHOOSE i \in DOMAIN tasks :
                /\ tasks[i] = x
                /\ \A j \in DOMAIN tasks : tasks[j] = x => i <= j
    IN  SubSeq(tasks, 1, k - 1) \o SubSeq(tasks, k + 1, Len(tasks))

Result(raised, d, save, ret, reward, notify) ==
    [raised |-> raised, data |-> d, save |-> save, ret |-> ret,
     reward |-> reward, notify |-> notify]

\* add_task_data with tasks.insert(0, task) for tasks.append(task)
add_task_data_insert_first(d, name, deadline, duration_hours, priority, t) ==
    LET dt == strptime(deadline) IN
    IF dt = None
    THEN Result("ValueError", d, <<>>, None, 0, FALSE)
    ELSE LET task == [id             |-> next_id(d.tasks),
                      name           |-> name,
                      deadline       |-> strftime(dt[1]),
                      duration_hours |-> duration_hours,
                      priority       |-> priority,
                      created_at     |-> t,
                      completed      |-> FALSE,
                      completed_at   |-> None,
                      reminder_sent  |-> FALSE]
             nd   == [d EXCEPT !.tasks = <<task>> \o @]
         IN  Result("", nd, <<nd>>, <<task>>, 0, FALSE)

\* add_task_data keeping the text of a deadline that does not parse
add_task_data_keep_text(d, name, deadline, duration_hours, priority, t) ==
    LET dt   == strptime(deadline)
        task == [id             |-> next_id(d.tasks),
                 name           |-> name,
                 deadline       |-> IF dt = None THEN deadline ELSE strftime(dt[1]),
                 duration_hours |-> duration_hours,
                 priority       |-> priority,
                 created_at     |-> t,
                 completed      |-> FALSE,
                 completed_at   |-> None,
                 reminder_sent  |-> FALSE]
        nd   == [d EXCEPT !.tasks = Append(@, task)]
    IN  Result("", nd, <<nd>>, <<task>>, 0, FALSE)

add_task_data(d, name, deadline, duration_hours, priority, t) ==
    LET dt == strptime(deadline) IN
    IF dt = None
    THEN Result("ValueError", d, <<>>, None, 0, FALSE)
    ELSE LET task == [id             |-> next_id(d.tasks),
                      name           |-> name,
                      deadline       |-> strftime(dt[1]),
                      duration_hours |-> duration_hours,
                      priority       |-> priority,
                      created_at     |-> t,
                      completed      |-> FALSE,
                      completed_at   |-> None,
                      reminder_sent  |-> FALSE]
             nd   == [d EXCEPT !.tasks = Append(@, task)]
         IN  Result("", nd, <<nd>>, <<task>>, 0, FALSE)

\* delete_task_data taking back the points of a completed task
delete_task_data_refund(d, task_id) ==
    LET k == find(d.tasks, task_id) IN
    IF k = 0
    THEN Result("KeyError", d, <<>>, None, 0, FALSE)
    ELSE LET nd == [d EXCEPT !.tasks  = remove(@, d.tasks[k]),
                             !.points = IF d.tasks[k].completed THEN 0 ELSE @]
         IN  Result("", nd, <<nd>>, <<d.tasks[k]>>, 0, FALSE)

\* delete_task_data calling save_data before it looks for the task
delete_task_data_save_first(d, task_id) ==
    LET k == find(d.tasks, task_id) IN
    IF k = 0
    THEN Result("KeyError", d, <<d>>, None, 0, FALSE)
    ELSE LET nd == [d EXCEPT !.tasks = remove(@, d.tasks[k])]
         IN  Result("", nd, <<nd>>, <<d.tasks[k]>>, 0, FALSE)

delete_task_data(d, task_id) ==
    LET k == find(d.tasks, task_id) IN
    IF k = 0
    THEN Result("KeyError", d, <<>>, None, 0, FALSE)
    ELSE LET nd == [d EXCEPT !.tasks = remove(@, d.tasks[k])]
         IN  Result("", nd, <<nd>>, <<d.tasks[k]>>, 0, FALSE)

\* gained, comparing the datetimes instead of their dates
\* the points policy granting 10 where there is no deadline to be late for
gained_without_deadline(deadline_dt, now_dt) ==
    IF deadline_dt = None \/ date(now_dt) <= date(deadline_dt[1]) THEN 10 ELSE 5

gained_by_datetime(deadline_dt, now_dt) ==
    IF deadline_dt # None /\ now_dt <= deadline_dt[1] THEN 10 ELSE 5

\* gained = 10 if deadline_dt and now_dt.date() <= deadline_dt.date() else 5
gained(deadline_dt, now_dt) ==
    IF deadline_dt # None /\ date(now_dt) <= date(deadline_dt[1]) THEN 10 ELSE 5

\* mark_complete_data without the `if found["completed"]` return
mark_complete_data_again(d, task_id, t) ==
    LET k == find(d.tasks, task_id) IN
    IF k = 0
    THEN Result("KeyError", d, <<>>, None, 0, FALSE)
    ELSE LET g  == gained(parse_date(d.tasks[k].deadline), t)
             nd == [d EXCEPT !.tasks[k].completed    = TRUE,
                             !.tasks[k].completed_at = <<t>>,
                             !.points                = @ + g]
         IN  Result("", nd, <<nd>>, <<nd.tasks[k]>>, g, TRUE)

\* mark_complete_data with data["points"] = gained
mark_complete_data_overwrite(d, task_id, t) ==
    LET k == find(d.tasks, task_id) IN
    IF k = 0
    THEN Result("KeyError", d, <<>>, None, 0, FALSE)
    ELSE IF d.tasks[k].completed
    THEN Result("", d, <<>>, <<d.tasks[k]>>, 0, FALSE)
    ELSE LET g  == gained(parse_date(d.tasks[k].deadline), t)
             nd == [d EXCEPT !.tasks[k].completed    = TRUE,
                             !.tasks[k].completed_at = <<t>>,
                             !.points                = g]
         IN  Result("", nd, <<nd>>, <<nd.tasks[k]>>, g, TRUE)

\* mark_complete_data without the assignment to found["completed_at"]
mark_complete_data_no_stamp(d, task_id, t) ==
    LET k == find(d.tasks, task_id) IN
    IF k = 0
    THEN Result("KeyError", d, <<>>, None, 0, FALSE)
    ELSE IF d.tasks[k].completed
    THEN Result("", d, <<>>, <<d.tasks[k]>>, 0, FALSE)
    ELSE LET g  == gained(parse_date(d.tasks[k].deadline), t)
             nd == [d EXCEPT !.tasks[k].completed    = TRUE,
                             !.points                = @ + g]
         IN  Result("", nd, <<nd>>, <<nd.tasks[k]>>, g, TRUE)

\* mark_complete_data calling reward_user before the test of found["completed"]
mark_complete_data_renotifies(d, task_id, t) ==
    LET k == find(d.tasks, task_id) IN
    IF k = 0
    THEN Result("KeyError", d, <<>>, None, 0, FALSE)
    ELSE IF d.tasks[k].completed
    THEN Result("", d, <<>>, <<d.tasks[k]>>, 0, TRUE)
    ELSE LET g  == gained(parse_date(d.tasks[k].deadline), t)
             nd == [d EXCEPT !.tasks[k].completed    = TRUE,
                             !.tasks[k].completed_at = <<t>>,
                             !.points                = @ + g]
         IN  Result("", nd, <<nd>>, <<nd.tasks[k]>>, g, TRUE)

\* mark_complete_data writing the time of completion to "created_at" as well
mark_complete_data_restamps(d, task_id, t) ==
    LET k == find(d.tasks, task_id) IN
    IF k = 0
    THEN Result("KeyError", d, <<>>, None, 0, FALSE)
    ELSE IF d.tasks[k].completed
    THEN Result("", d, <<>>, <<d.tasks[k]>>, 0, FALSE)
    ELSE LET g  == gained(parse_date(d.tasks[k].deadline), t)
             nd == [d EXCEPT !.tasks[k].completed    = TRUE,
                             !.tasks[k].completed_at = <<t>>,
                             !.tasks[k].created_at   = t,
                             !.points                = @ + g]
         IN  Result("", nd, <<nd>>, <<nd.tasks[k]>>, g, TRUE)

\* mark_complete_data calling save_data before it adds the points
mark_complete_data_save_early(d, task_id, t) ==
    LET k == find(d.tasks, task_id) IN
    IF k = 0
    THEN Result("KeyError", d, <<>>, None, 0, FALSE)
    ELSE IF d.tasks[k].completed
    THEN Result("", d, <<>>, <<d.tasks[k]>>, 0, FALSE)
    ELSE LET g  == gained(parse_date(d.tasks[k].deadline), t)
             sd == [d EXCEPT !.tasks[k].completed    = TRUE,
                             !.tasks[k].completed_at = <<t>>]
             nd == [sd EXCEPT !.points = @ + g]
         IN  Result("", nd, <<sd>>, <<nd.tasks[k]>>, g, TRUE)

mark_complete_data(d, task_id, t) ==
    LET k == find(d.tasks, task_id) IN
    IF k = 0
    THEN Result("KeyError", d, <<>>, None, 0, FALSE)
    ELSE IF d.tasks[k].completed
    THEN Result("", d, <<>>, <<d.tasks[k]>>, 0, FALSE)
    ELSE LET g  == gained(parse_date(d.tasks[k].deadline), t)
             nd == [d EXCEPT !.tasks[k].completed    = TRUE,
                             !.tasks[k].completed_at = <<t>>,
                             !.points                = @ + g]
         IN  Result("", nd, <<nd>>, <<nd.tasks[k]>>, g, TRUE)

\* the sort key with duration_hours ahead of priority
edf_key_duration_first(t) ==
    <<strptime(t.deadline)[1], t.duration_hours, t.priority, t.id>>

\* the sort key without its last component
edf_key_no_id(t) == <<strptime(t.deadline)[1], t.priority, t.duration_hours>>

\* the sort key of suggest_edf: (deadline, priority, duration_hours, id)
edf_key(t) == <<strptime(t.deadline)[1], t.priority, t.duration_hours, t.id>>

\* Python's tuple comparison a < b
tuple_lt(a, b) ==
    \E i \in 1 .. Len(a) : a[i] < b[i] /\ \A j \in 1 .. (i - 1) : a[j] = b[j]

\* sorted(tasks, key=edf_key): a stable sort, here by insertion from the left
RECURSIVE sorted(_)
sorted(s) ==
    IF s = <<>> THEN <<>>
    ELSE LET x    == s[Len(s)]
             head == sorted(SubSeq(s, 1, Len(s) - 1))
             k    == Cardinality({ i \in DOMAIN head : ~ tuple_lt(edf_key(x), edf_key(head[i])) })
         IN  SubSeq(head, 1, k) \o <<x>> \o SubSeq(head, k + 1, Len(head))

\* [t for t in tasks if not t.get("completed", False)]
pending_of(tasks) == SelectSeq(tasks, LAMBDA t : ~ t.completed)

\* suggest_edf without the filter on "completed"
suggest_edf_all(d) ==
    IF d.tasks = <<>>
    THEN Result("", d, <<>>, <<>>, 0, FALSE)
    ELSE Result("", d, <<>>, sorted(d.tasks), 0, FALSE)

suggest_edf(d) ==
    LET tasks == pending_of(d.tasks) IN
    IF tasks = <<>>
    THEN Result("", d, <<>>, <<>>, 0, FALSE)
    ELSE IF \E i \in DOMAIN tasks : strptime(tasks[i].deadline) = None
    THEN Result("ValueError", d, <<>>, None, 0, FALSE)
    ELSE Result("", d, <<>>, sorted(tasks), 0, FALSE)

----------------------------------------------------------------------------
(* src/OSProject/tasks.py: the operations of the terminal menu.  They      *)
(* print and return None; ret is what was printed (the task, the order).   *)

\* the values that leave the three `while True` prompt loops of add_task
prompts_accept(deadline, duration_hours, priority) ==
    /\ strptime(deadline) # None
    /\ duration_hours > 0
    /\ priority >= 1 /\ priority <= 5

add_task(d, name, deadline, duration_hours, priority, t) ==
    IF name = ""
    THEN Result("", d, <<>>, None, 0, FALSE)
    ELSE LET task == [id             |-> next_id(d.tasks),
                      name           |-> name,
                      deadline       |-> strftime(strptime(deadline)[1]),
                      duration_hours |-> duration_hours,
                      priority       |-> priority,
                      created_at     |-> t,
                      completed      |-> FALSE,
                      completed_at   |-> None,
                      reminder_sent  |-> FALSE]
             nd   == [d EXCEPT !.tasks = Append(@, task)]
         IN  Result("", nd, <<nd>>, <<task>>, 0, FALSE)

delete_task(d, tid, confirm) ==
    LET k == find(d.tasks, tid) IN
    IF d.tasks = <<>> \/ k = 0 \/ confirm # "y"
    THEN Result("", d, <<>>, None, 0, FALSE)
    ELSE LET nd == [d EXCEPT !.tasks = remove(@, d.tasks[k])]
         IN  Result("", nd, <<nd>>, <<d.tasks[k]>>, 0, FALSE)

mark_complete(d, tid, t) ==
    LET k == find(d.tasks, tid) IN
    IF pending_of(d.tasks) = <<>> \/ k = 0 \/ d.tasks[k].completed
    THEN Result("", d, <<>>, None, 0, FALSE)
    ELSE LET g  == gained(parse_date(d.tasks[k].deadline), t)
             nd == [d EXCEPT !.tasks[k].completed    = TRUE,
                             !.tasks[k].completed_at = <<t>>,
                             !.points                = @ + g]
         IN  Result("", nd, <<nd>>, <<nd.tasks[k]>>, g, TRUE)

\* suggest_edf sorting data["tasks"] itself, with data["tasks"].sort(key=...)
print_edf_in_place(d) ==
    LET tasks == pending_of(d.tasks) IN
    IF tasks = <<>>
    THEN Result("", d, <<>>, <<>>, 0, FALSE)
    ELSE IF \E i \in DOMAIN d.tasks : strptime(d.tasks[i].deadline) = None
    THEN Result("ValueError", d, <<>>, None, 0, FALSE)
    ELSE Result("", [d EXCEPT !.tasks = sorted(d.tasks)], <<>>, sorted(tasks), 0, FALSE)

print_edf(d) ==
    LET tasks == pending_of(d.tasks) IN
    IF tasks = <<>>
    THEN Result("", d, <<>>, <<>>, 0, FALSE)
    ELSE IF \E i \in DOMAIN tasks : strptime(tasks[i].deadline) = None
    THEN Result("ValueError", d, <<>>, None, 0, FALSE)
    ELSE Result("", d, <<>>, sorted(tasks), 0, FALSE)

----------------------------------------------------------------------------
(* src/OSProject/scheduler.py: the older script, run on the same           *)
(* tasks.json.  Its DATE_FMT is "%Y-%m-%d" and its parse_date returns None *)
(* where strptime raises ValueError.                                       *)

\* datetime.strptime(s, "%Y-%m-%d") inside try/except ValueError: a text with
\* hours and minutes leaves unconverted data and gives None
scheduler_parse_date(s) ==
    CASE s = "2025-01-10" -> <<0>>
      [] OTHER            -> None

\* datetime.max: later than every instant of the tables above
datetime_max == 2147483647

\* key_fn of suggest_edf: (parse_date(deadline) or datetime.max, priority,
\* duration_hours, id)
key_fn(t) ==
    << IF scheduler_parse_date(t.deadline) = None
       THEN datetime_max
       ELSE scheduler_parse_date(t.deadline)[1],
       t.priority, t.duration_hours, t.id >>

\* sorted(tasks, key=key_fn)
RECURSIVE sorted_by_key_fn(_)
sorted_by_key_fn(s) ==
    IF s = <<>> THEN <<>>
    ELSE LET x    == s[Len(s)]
             head == sorted_by_key_fn(SubSeq(s, 1, Len(s) - 1))
             k    == Cardinality({ i \in DOMAIN head : ~ tuple_lt(key_fn(x), key_fn(head[i])) })
         IN  SubSeq(head, 1, k) \o <<x>> \o SubSeq(head, k + 1, Len(head))

\* suggest_edf of the older script: ret is the order it prints
scheduler_suggest_edf(d) ==
    Result("", d, <<>>, sorted_by_key_fn(pending_of(d.tasks)), 0, FALSE)

----------------------------------------------------------------------------
(* src/OSProject/reminder_system.py *)

REMINDER_WINDOW_MIN == 10

\* due_soon with `now < d` for `now <= d`
due_soon_after_now(task, t) ==
    /\ ~ task.completed
    /\ strptime(task.deadline) # None
    /\ t < strptime(task.deadline)[1]
    /\ strptime(task.deadline)[1] <= t + REMINDER_WINDOW_MIN
    /\ ~ task.reminder_sent

\* the condition under which the loop of check_reminders notifies for a task
due_soon(task, t) ==
    /\ ~ task.completed
    /\ strptime(task.deadline) # None
    /\ t <= strptime(task.deadline)[1]
    /\ strptime(task.deadline)[1] <= t + REMINDER_WINDOW_MIN
    /\ ~ task.reminder_sent

\* check_reminders with the loop given up at a deadline that does not parse
check_reminders_gives_up(d, t) ==
    IF \E i \in DOMAIN d.tasks : ~ d.tasks[i].completed /\ strptime(d.tasks[i].deadline) = None
    THEN d
    ELSE [d EXCEPT !.tasks = [i \in DOMAIN d.tasks |->
            IF due_soon(d.tasks[i], t)
            THEN [d.tasks[i] EXCEPT !.reminder_sent = TRUE]
            ELSE d.tasks[i]]]

\* check_reminders keeping only the tasks its loop did not pass over as completed
check_reminders_pending_only(d, t) ==
    [d EXCEPT !.tasks = [i \in DOMAIN pending_of(d.tasks) |->
        IF due_soon(pending_of(d.tasks)[i], t)
        THEN [pending_of(d.tasks)[i] EXCEPT !.reminder_sent = TRUE]
        ELSE pending_of(d.tasks)[i]]]

\* check_reminders without the assignment to task["_reminder_sent"]
check_reminders_no_flag(d, t) == d

\* the loop of check_reminders over data["tasks"]: the dict it then saves
check_reminders(d, t) ==
    [d EXCEPT !.tasks = [i \in DOMAIN d.tasks |->
        IF due_soon(d.tasks[i], t)
        THEN [d.tasks[i] EXCEPT !.reminder_sent = TRUE]
        ELSE d.tasks[i]]]

\* the notification.notify calls of that loop, in order: the task and the loop's `now`
notifications(d, t) ==
    LET due == SelectSeq(d.tasks, LAMBDA task : due_soon(task, t))
    IN  [i \in DOMAIN due |-> [id |-> due[i].id, at |-> t]]

----------------------------------------------------------------------------
(* No Pomodoro window or call is open in the runs of the task store *)

Closed == [open |-> FALSE]

NoPomodoro == pomo = Closed /\ modal = Closed /\ tpomo = Closed /\ hosts = Closed

----------------------------------------------------------------------------
(* The state machine *)

NoCall == [op |-> "", arg |-> 0, raised |-> "", ret |-> None, reward |-> 0, notify |-> FALSE]

Init ==
    /\ frontend \in {"gui", "terminal"}
    /\ file = <<>>
    /\ data = load_data(<<>>)
    /\ upc = IF frontend = "gui" THEN "idle" ELSE "loaded"
    /\ rpc = "sleep"
    /\ rdata = EmptyStore
    /\ rnow = 0
    /\ now = 535
    /\ last = NoCall
    /\ assigned = <<>>
    /\ rewardSum = 0
    /\ reminded = <<>>
    /\ NoPomodoro

\* what a call that returned r leaves behind; the GUI handler's dict is dropped on return
Returned(op, arg, r) ==
    /\ data' = IF frontend = "gui" THEN EmptyStore ELSE r.data
    /\ file' = IF r.save = <<>> THEN file ELSE r.save
    /\ last' = [op |-> op, arg |-> arg, raised |-> r.raised, ret |-> r.ret,
                reward |-> r.reward, notify |-> r.notify]
    /\ rewardSum' = rewardSum + r.reward
    /\ assigned' = IF op = "add" /\ r.save # <<>>
                   THEN Append(assigned, r.ret[1].id) ELSE assigned
    /\ upc' = IF frontend = "gui" THEN "idle" ELSE "loaded"
    /\ UNCHANGED <<pomodoros, frontend, rpc, rdata, rnow, now, reminded>>

\* the runs are cut off once MaxAdds full rewards have been paid out
CanAward(r) == r.reward = 0 \/ rewardSum < 10 * MaxAdds

\* GUI.py: the load_data() in the argument of a handler's call
GuiLoad ==
    /\ frontend = "gui" /\ upc = "idle"
    /\ data' = load_data(file)
    /\ upc' = "loaded"
    /\ UNCHANGED <<pomodoros, frontend, file, rpc, rdata, rnow, now, last, assigned, rewardSum, reminded>>

\* GUI.py open_add_popup.submit: an empty name returns before load_data()
SubmitNoName(Inputs) ==
    /\ frontend = "gui" /\ upc = "idle"
    /\ \E in \in Inputs : in.name = ""
    /\ last' = [NoCall EXCEPT !.op = "add", !.raised = "Task name required"]
    /\ UNCHANGED <<pomodoros, frontend, file, data, upc, rpc, rdata, rnow, now, assigned, rewardSum, reminded>>

Submit(Inputs) ==
    /\ frontend = "gui" /\ upc = "loaded"
    /\ Len(assigned) < MaxAdds
    /\ \E in \in Inputs :
        /\ in.name # ""
        /\ Returned("add", 0,
              add_task_data(data, in.name, in.deadline, in.duration_hours, in.priority, now))

DeleteSelected ==
    /\ frontend = "gui" /\ upc = "loaded"
    /\ \E task_id \in IdInputs :
        Returned("delete", task_id, delete_task_data(data, task_id))

CompleteSelected ==
    /\ frontend = "gui" /\ upc = "loaded"
    /\ \E task_id \in IdInputs :
        /\ CanAward(mark_complete_data(data, task_id, now))
        /\ Returned("complete", task_id, mark_complete_data(data, task_id, now))

ShowEdf ==
    /\ frontend = "gui" /\ upc = "loaded"
    /\ Returned("edf", 0, suggest_edf(data))

\* scheduler.py main_loop, choices 1, 6, 3, 4
TermAdd(Inputs) ==
    /\ frontend = "terminal"
    /\ Len(assigned) < MaxAdds
    /\ \E in \in Inputs :
        /\ in.name = "" \/ prompts_accept(in.deadline, in.duration_hours, in.priority)
        /\ Returned("add", 0,
              add_task(data, in.name, in.deadline, in.duration_hours, in.priority, now))

TermDelete ==
    /\ frontend = "terminal"
    /\ \E tid \in IdInputs, confirm \in {"y", "n"} :
        Returned("delete", tid, delete_task(data, tid, confirm))

TermComplete ==
    /\ frontend = "terminal"
    /\ \E tid \in IdInputs :
        /\ CanAward(mark_complete(data, tid, now))
        /\ Returned("complete", tid, mark_complete(data, tid, now))

TermEdf ==
    /\ frontend = "terminal"
    /\ Returned("edf", 0, print_edf(data))

\* the reminder thread: data = load_data(); now = datetime.now()
RemLoad ==
    /\ rpc = "sleep"
    /\ rdata' = load_data(file)
    /\ rnow' = now
    /\ rpc' = "loaded"
    /\ UNCHANGED <<pomodoros, frontend, file, data, upc, now, last, assigned, rewardSum, reminded>>

\* the reminder thread: the loop, then save_data(data); time.sleep(60)
RemSave ==
    /\ rpc = "loaded"
    /\ Len(reminded) + Len(notifications(rdata, rnow)) <= MaxReminders
    /\ reminded' = reminded \o notifications(rdata, rnow)
    /\ rdata' = EmptyStore
    /\ rnow' = 0
    /\ file' = <<check_reminders(rdata, rnow)>>
    /\ rpc' = "sleep"
    /\ UNCHANGED <<pomodoros, frontend, data, upc, now, last, assigned, rewardSum>>

Tick ==
    /\ \E t \in Clock : t > now /\ now' = t
    /\ UNCHANGED <<pomodoros, frontend, file, data, upc, rpc, rdata, rnow, last, assigned, rewardSum, reminded>>

TickTo(Instants) ==
    /\ \E t \in Instants : t > now /\ now' = t
    /\ UNCHANGED <<pomodoros, frontend, file, data, upc, rpc, rdata, rnow, last, assigned, rewardSum, reminded>>

\* the process ends (the daemon reminder thread with it) and is started again:
\* main_loop loads the store, the reminder thread starts with an evaluation
Restart ==
    /\ data' = IF frontend = "terminal" THEN load_data(file) ELSE EmptyStore
    /\ upc' = IF frontend = "gui" THEN "idle" ELSE "loaded"
    /\ rpc' = "sleep"
    /\ rdata' = EmptyStore
    /\ rnow' = 0
    /\ UNCHANGED <<pomodoros, frontend, file, now, last, assigned, rewardSum, reminded>>

\* the lifecycle operations of both front ends, one after the other
NextSeq ==
    \/ GuiLoad \/ SubmitNoName(AddInputs) \/ Submit(AddInputs)
    \/ DeleteSelected \/ CompleteSelected \/ ShowEdf
    \/ TermAdd(AddInputs) \/ TermDelete \/ TermComplete \/ TermEdf
    \/ Tick

SpecSeq == Init /\ [][NextSeq]_vars

\* the same operations over the inputs of OpsInputs
NextOps ==
    \/ GuiLoad \/ SubmitNoName(OpsInputs) \/ Submit(OpsInputs)
    \/ DeleteSelected \/ CompleteSelected \/ ShowEdf
    \/ TermAdd(OpsInputs) \/ TermDelete \/ TermComplete \/ TermEdf
    \/ Tick

SpecOps == Init /\ [][NextOps]_vars

\* the front end and the reminder thread
Next ==
    \/ GuiLoad \/ SubmitNoName(FewInputs) \/ Submit(FewInputs)
    \/ DeleteSelected \/ CompleteSelected \/ ShowEdf
    \/ TermAdd(FewInputs) \/ TermDelete \/ TermComplete \/ TermEdf
    \/ RemLoad \/ RemSave
    \/ Tick

Spec == Init /\ [][Next]_vars

\* no reminder notified yet and no evaluation under way
Setup == reminded = <<>> /\ rpc = "sleep"

\* save_data in two steps, open(DATA_FILE, "w") and json.dump, and load_data
\* on the file in between: json.load raises JSONDecodeError

\* GUI.py: load_data() in a handler while the reminder thread is saving
GuiLoadFails ==
    /\ frontend = "gui" /\ upc = "idle"
    /\ file = Truncated
    /\ last' = [NoCall EXCEPT !.op = "load", !.raised = "JSONDecodeError"]
    /\ UNCHANGED <<pomodoros, frontend, file, data, upc, rpc, rdata, rnow, now, assigned, rewardSum, reminded>>

\* GUI.py submit: add_task_data up to the open() of its save_data
SubmitOpen(Inputs) ==
    /\ frontend = "gui" /\ upc = "loaded"
    /\ Len(assigned) < MaxAdds
    /\ \E in \in Inputs :
        LET r == add_task_data(data, in.name, in.deadline, in.duration_hours, in.priority, now) IN
        /\ in.name # ""
        /\ r.save # <<>>
        /\ data' = r.data
        /\ file' = Truncated
        /\ upc' = "writing"
        /\ last' = [op |-> "add", arg |-> 0, raised |-> r.raised, ret |-> r.ret,
                    reward |-> r.reward, notify |-> r.notify]
        /\ assigned' = Append(assigned, r.ret[1].id)
    /\ UNCHANGED <<pomodoros, frontend, rpc, rdata, rnow, now, rewardSum, reminded>>

\* scheduler.py choice 1: add_task up to the open() of its save_data
TermAddOpen(Inputs) ==
    /\ frontend = "terminal" /\ upc = "loaded"
    /\ Len(assigned) < MaxAdds
    /\ \E in \in Inputs :
        LET r == add_task(data, in.name, in.deadline, in.duration_hours, in.priority, now) IN
        /\ in.name # ""
        /\ prompts_accept(in.deadline, in.duration_hours, in.priority)
        /\ data' = r.data
        /\ file' = Truncated
        /\ upc' = "writing"
        /\ last' = [op |-> "add", arg |-> 0, raised |-> r.raised, ret |-> r.ret,
                    reward |-> r.reward, notify |-> r.notify]
        /\ assigned' = Append(assigned, r.ret[1].id)
    /\ UNCHANGED <<pomodoros, frontend, rpc, rdata, rnow, now, rewardSum, reminded>>

\* the json.dump of that save_data, and the return of the call
SaveWrite ==
    /\ upc = "writing"
    /\ file' = <<data>>
    /\ data' = IF frontend = "gui" THEN EmptyStore ELSE data
    /\ upc' = IF frontend = "gui" THEN "idle" ELSE "loaded"
    /\ UNCHANGED <<pomodoros, frontend, rpc, rdata, rnow, now, last, assigned, rewardSum, reminded>>

\* the reminder thread: load_data() while the front end is saving
RemLoadFails ==
    /\ rpc = "sleep"
    /\ file = Truncated
    /\ rpc' = "failed"
    /\ UNCHANGED <<pomodoros, frontend, file, data, upc, rdata, rnow, now, last, assigned, rewardSum, reminded>>

\* GUI.py run: the exception is swallowed and the thread sleeps; the run of
\* scheduler.py has no try, so there the thread has ended
RemRetry ==
    /\ rpc = "failed"
    /\ frontend = "gui"
    /\ rpc' = "sleep"
    /\ UNCHANGED <<pomodoros, frontend, file, data, upc, rdata, rnow, now, last, assigned, rewardSum, reminded>>

\* the reminder thread: the loop, up to the open() of save_data
RemOpen ==
    /\ rpc = "loaded"
    /\ Len(reminded) + Len(notifications(rdata, rnow)) <= MaxReminders
    /\ reminded' = reminded \o notifications(rdata, rnow)
    /\ rdata' = check_reminders(rdata, rnow)
    /\ file' = Truncated
    /\ rpc' = "writing"
    /\ UNCHANGED <<pomodoros, frontend, data, upc, rnow, now, last, assigned, rewardSum>>

\* the reminder thread: the json.dump of save_data; time.sleep(60)
RemWrite ==
    /\ rpc = "writing"
    /\ file' = <<rdata>>
    /\ rdata' = EmptyStore
    /\ rnow' = 0
    /\ rpc' = "sleep"
    /\ UNCHANGED <<pomodoros, frontend, data, upc, now, last, assigned, rewardSum, reminded>>

\* the adds of a front end and the reminder thread, with the saves in two steps
NextIO ==
    \/ file # Truncated /\ GuiLoad
    \/ GuiLoadFails
    \/ SubmitOpen(FewInputs) \/ TermAddOpen(FewInputs)
    \/ SaveWrite
    \/ file # Truncated /\ RemLoad
    \/ RemLoadFails \/ RemRetry
    \/ RemOpen \/ RemWrite

SpecIO == Init /\ [][NextIO]_vars

\* the program started on a tasks.json that an earlier run, the older script or
\* an editor has left

InitAny ==
    /\ frontend \in {"gui", "terminal"}
    /\ file \in { <<d>> : d \in AnyStores }
    /\ data = IF frontend = "terminal" THEN load_data(file) ELSE EmptyStore
    /\ upc = IF frontend = "gui" THEN "idle" ELSE "loaded"
    /\ rpc = "sleep"
    /\ rdata = EmptyStore
    /\ rnow = 0
    /\ now = 535
    /\ last = NoCall
    /\ assigned = <<>>
    /\ rewardSum = 0
    /\ reminded = <<>>
    /\ NoPomodoro

\* the instants at which time.sleep(60) of the reminder thread returns, from
\* two minutes before the deadline 09:00 to one minute after it
LiveClock == {538, 539, 540, 541}

\* time.sleep(60) returns and check_reminders starts: load_data() and now
Period ==
    /\ rpc = "sleep"
    /\ \E t \in LiveClock :
        /\ t > now /\ \A u \in LiveClock : u > now => t <= u
        /\ now' = t
        /\ rnow' = t
    /\ rdata' = load_data(file)
    /\ rpc' = "loaded"
    /\ UNCHANGED <<pomodoros, frontend, file, data, upc, last, assigned, rewardSum, reminded>>

\* the front end's operations at any moment, the reminder thread once a minute
NextLive ==
    \/ GuiLoad \/ Submit(FewInputs)
    \/ DeleteSelected \/ CompleteSelected
    \/ TermAdd(FewInputs) \/ TermDelete \/ TermComplete
    \/ Period \/ RemSave

SpecLive == Init /\ [][NextLive]_vars

\* a tasks.json whose deadlines were written by the older script ("%Y-%m-%d")
\* or by hand, completed by the current front ends
StoredTasks ==
    LET task == [id |-> 1, name |-> "report", deadline |-> "2025-01-10",
                 duration_hours |-> 2, priority |-> 2, created_at |-> 535,
                 completed |-> FALSE, completed_at |-> None, reminder_sent |-> FALSE]
    IN  { task,
          [task EXCEPT !.deadline = "2025-01-10 09:00"],
          [task EXCEPT !.id = 2, !.deadline = "2025-01-10 99:00"],
          [task EXCEPT !.id = 2, !.deadline = "2025-01-11 00:05"],
          [task EXCEPT !.id = 2, !.completed = TRUE, !.completed_at = <<535>>] }

StoredStores ==
    { d \in [tasks  : {<<>>} \cup { <<a>> : a \in StoredTasks } \cup (StoredTasks \X StoredTasks),
             points : {0, 5}] :
        /\ \A i, j \in DOMAIN d.tasks : d.tasks[i].id = d.tasks[j].id => i = j
        /\ (d.points = 5) <=> (\E i \in DOMAIN d.tasks : d.tasks[i].completed) }

InitStored ==
    /\ frontend \in {"gui", "terminal"}
    /\ file \in { <<d>> : d \in StoredStores }
    /\ data = IF frontend = "terminal" THEN load_data(file) ELSE EmptyStore
    /\ upc = IF frontend = "gui" THEN "idle" ELSE "loaded"
    /\ rpc = "sleep"
    /\ rdata = EmptyStore
    /\ rnow = 0
    /\ now = 535
    /\ last = NoCall
    /\ assigned = <<>>
    /\ rewardSum = 0
    /\ reminded = <<>>
    /\ NoPomodoro

NextStored ==
    \/ GuiLoad \/ CompleteSelected \/ TermComplete
    \/ Tick

SpecStored == InitStored /\ [][NextStored]_vars

\* the older script started on the file, choice 4 of its menu
ScriptEdf ==
    /\ rpc = "sleep"
    /\ last' = [op |-> "script_edf", arg |-> 0,
                raised |-> scheduler_suggest_edf(load_data(file)).raised,
                ret    |-> scheduler_suggest_edf(load_data(file)).ret,
                reward |-> 0, notify |-> FALSE]
    /\ UNCHANGED <<pomodoros, frontend, file, data, upc, rpc, rdata, rnow, now, assigned, rewardSum, reminded>>

NextAny ==
    \/ GuiLoad \/ Submit(FewInputs) \/ ShowEdf
    \/ TermAdd(FewInputs) \/ TermEdf
    \/ RemLoad \/ RemSave
    \/ ScriptEdf

SpecAny == InitAny /\ [][NextAny]_vars

\* tasks.json as text: load_data, save_data and changes of the dict in between

InitJson ==
    /\ frontend = "terminal"
    /\ file \in {<<>>} \cup { save_text(<<>>, d) : d \in JsonStores }
    /\ data = EmptyStore
    /\ upc = "idle"
    /\ rpc = "sleep"
    /\ rdata = EmptyStore
    /\ rnow = 0
    /\ now = 535
    /\ last = NoCall
    /\ assigned = <<>>
    /\ rewardSum = 0
    /\ reminded = <<>>
    /\ NoPomodoro

\* data = load_data(); last.arg is 2 when it follows the save of a loaded store
JsonLoad ==
    /\ data' = load_text(file)
    /\ last' = [NoCall EXCEPT !.op = "load",
                              !.arg = IF last.op = "save" /\ last.arg = 1 THEN 2 ELSE 0]
    /\ upc' = "loaded"
    /\ UNCHANGED <<pomodoros, frontend, file, rpc, rdata, rnow, now, assigned, rewardSum, reminded>>

\* save_data(data); last.arg is 1 when data is as load_data() returned it
JsonSave ==
    /\ upc = "loaded"
    /\ file' = save_text(file, data)
    /\ last' = [NoCall EXCEPT !.op = "save",
                              !.arg = IF last.op = "load" THEN 1 ELSE 0]
    /\ UNCHANGED <<pomodoros, frontend, data, upc, rpc, rdata, rnow, now, assigned, rewardSum, reminded>>

\* the operations on the dict between a load and a save
JsonChange ==
    /\ upc = "loaded"
    /\ \E d \in JsonStores : d # data /\ data' = d
    /\ last' = [NoCall EXCEPT !.op = "change"]
    /\ UNCHANGED <<pomodoros, frontend, file, upc, rpc, rdata, rnow, now, assigned, rewardSum, reminded>>

NextJson == JsonLoad \/ JsonSave \/ JsonChange

SpecJson == InitJson /\ [][NextJson]_vars

\* lifecycle operations between the evaluations until the first reminder, then
\* evaluations and restarts only
NextEval ==
    \/ Setup /\ GuiLoad
    \/ Setup /\ Submit(EvalInputs)
    \/ Setup /\ CompleteSelected
    \/ Setup /\ TermAdd(EvalInputs)
    \/ Setup /\ TermComplete
    \/ RemLoad \/ RemSave
    \/ Restart
    \/ TickTo(EvalClock)

SpecEval == Init /\ [][NextEval]_vars

----------------------------------------------------------------------------
(* src/pomodoro.py: start_pomodoro_ui.  `state` is the record below; pending *)
(* counts the callbacks registered with win.after that have neither run nor *)
(* been cancelled, and aid says what state["after_id"] refers to: "none",   *)
(* "live" (one of the pending callbacks) or "fired".  threads counts the    *)
(* threads of block_apps_loop by position: new (started), test (at `while   *)
(* state["blocking"]`), kill (at kill_blocked).                             *)

\* the window as start_pomodoro_ui leaves it
PomoWindow(focus_minutes, break_minutes, blocked) ==
    [open |-> TRUE, mode |-> "focus", running |-> FALSE, paused |-> FALSE,
     remaining |-> focus_minutes * 60, pending |-> 0, aid |-> "none",
     focus_minutes |-> focus_minutes, break_minutes |-> break_minutes,
     blocked |-> blocked, blocking |-> FALSE, block_thread |-> FALSE,
     threads |-> [new |-> 0, test |-> 0, kill |-> 0]]

\* if state["after_id"]: win.after_cancel(state["after_id"]); state["after_id"] = None
after_cancel(p) ==
    IF p.aid = "none" THEN p
    ELSE [p EXCEPT !.pending = IF p.aid = "live" THEN @ - 1 ELSE @, !.aid = "none"]

\* state["after_id"] = win.after(1000, timer_tick)
win_after(p) == [p EXCEPT !.pending = @ + 1, !.aid = "live"]

start_blocking(p) ==
    IF p.blocked /\ ~ p.block_thread
    THEN [p EXCEPT !.threads.new = @ + 1, !.block_thread = TRUE]
    ELSE p

stop_blocking(p) == [p EXCEPT !.blocking = FALSE, !.block_thread = FALSE]

RECURSIVE timer_tick(_)
RECURSIVE start_timer(_)

start_break(p) ==
    start_timer([p EXCEPT !.mode = "break", !.remaining = p.break_minutes * 60])

timer_tick(p) ==
    IF ~ p.running THEN p
    ELSE IF p.remaining <= 0
    THEN LET q == stop_blocking([p EXCEPT !.running = FALSE]) IN
         IF p.mode = "focus" THEN start_break(q) ELSE [q EXCEPT !.open = FALSE]
    ELSE win_after([p EXCEPT !.remaining = @ - 1])

start_timer(p) ==
    IF p.running THEN p
    ELSE LET q == [p EXCEPT !.running = TRUE, !.paused = FALSE] IN
         timer_tick(IF q.mode = "focus" THEN start_blocking(q) ELSE q)

\* pause_timer without win.after_cancel
pause_timer_no_cancel(p) ==
    IF ~ p.running THEN p
    ELSE stop_blocking([p EXCEPT !.running = FALSE, !.paused = TRUE])

pause_timer(p) ==
    IF ~ p.running THEN p
    ELSE stop_blocking(after_cancel([p EXCEPT !.running = FALSE, !.paused = TRUE]))

reset_timer(p) ==
    [after_cancel([p EXCEPT !.running = FALSE, !.paused = FALSE])
       EXCEPT !.remaining = IF p.mode = "focus" THEN p.focus_minutes * 60
                            ELSE p.break_minutes * 60]

close_win(p) ==
    [after_cancel(stop_blocking([p EXCEPT !.running = FALSE])) EXCEPT !.open = FALSE]

----------------------------------------------------------------------------
(* src/GUI.py: start_pomodoro_modal.  timer_state, remaining_seconds and    *)
(* the callbacks of win.after, as for the window above.                     *)

ModalWindow(duration_minutes) ==
    [open |-> TRUE, running |-> FALSE, paused |-> FALSE,
     remaining |-> duration_minutes * 60, pending |-> 0, aid |-> "none",
     duration_minutes |-> duration_minutes]

modal_timer_tick(m) ==
    IF ~ m.running THEN m
    ELSE IF m.remaining <= 0 THEN [m EXCEPT !.running = FALSE]
    ELSE win_after([m EXCEPT !.remaining = @ - 1])

modal_start_timer(m) ==
    IF m.running THEN m
    ELSE modal_timer_tick([m EXCEPT !.running = TRUE, !.paused = FALSE])

modal_pause_timer(m) ==
    IF ~ m.running THEN m
    ELSE after_cancel([m EXCEPT !.running = FALSE, !.paused = TRUE])

modal_reset_timer(m) ==
    [after_cancel([m EXCEPT !.running = FALSE, !.paused = FALSE])
       EXCEPT !.remaining = m.duration_minutes * 60]

modal_close_win(m) ==
    [after_cancel([m EXCEPT !.running = FALSE]) EXCEPT !.open = FALSE]

----------------------------------------------------------------------------
(* The two Pomodoro windows of the GUI, one open at a time *)

\* the minutes and the blocked_apps the window is opened with
UiInputs == [focus_minutes : {1}, break_minutes : {1}, blocked : BOOLEAN]

InitUi ==
    /\ frontend = "gui"
    /\ file = <<>>
    /\ data = EmptyStore
    /\ upc = "idle"
    /\ rpc = "sleep"
    /\ rdata = EmptyStore
    /\ rnow = 0
    /\ now = 535
    /\ last = NoCall
    /\ assigned = <<>>
    /\ rewardSum = 0
    /\ reminded = <<>>
    /\ \/ /\ pomo \in { PomoWindow(in.focus_minutes, in.break_minutes, in.blocked) : in \in UiInputs }
          /\ modal = Closed
       \/ /\ pomo = Closed
          /\ modal \in { ModalWindow(in.focus_minutes) : in \in UiInputs }
    /\ tpomo = Closed /\ hosts = Closed

\* the buttons of the window
UiStart ==
    /\ pomo.open
    /\ (pomo.mode = "focus" /\ ~ pomo.running /\ pomo.blocked /\ ~ pomo.block_thread)
       => pomo.threads.new + pomo.threads.test + pomo.threads.kill < MaxThreads
    /\ pomo' = start_timer(pomo)
    /\ UNCHANGED <<tasksVars, modal, tpomo, hosts>>

UiPause ==
    /\ pomo.open
    /\ pomo' = pause_timer(pomo)
    /\ UNCHANGED <<tasksVars, modal, tpomo, hosts>>

UiReset ==
    /\ pomo.open
    /\ pomo' = reset_timer(pomo)
    /\ UNCHANGED <<tasksVars, modal, tpomo, hosts>>

UiClose ==
    /\ pomo.open
    /\ pomo' = close_win(pomo)
    /\ UNCHANGED <<tasksVars, modal, tpomo, hosts>>

\* Tk runs a callback registered with win.after: the oldest one
UiFire ==
    /\ pomo.open /\ pomo.pending > 0
    /\ pomo' = timer_tick([pomo EXCEPT !.pending = @ - 1,
                                       !.aid = IF pomo.pending = 1 /\ pomo.aid = "live"
                                               THEN "fired" ELSE @])
    /\ UNCHANGED <<tasksVars, modal, tpomo, hosts>>

\* block_apps_loop: state["blocking"] = True
BlockerBegins ==
    /\ pomo # Closed /\ pomo.threads.new > 0
    /\ pomo' = [pomo EXCEPT !.blocking = TRUE, !.threads.new = @ - 1, !.threads.test = @ + 1]
    /\ UNCHANGED <<tasksVars, modal, tpomo, hosts>>

\* block_apps_loop: `while state["blocking"]` found true
BlockerLoops ==
    /\ pomo # Closed /\ pomo.threads.test > 0 /\ pomo.blocking
    /\ pomo' = [pomo EXCEPT !.threads.test = @ - 1, !.threads.kill = @ + 1]
    /\ UNCHANGED <<tasksVars, modal, tpomo, hosts>>

\* block_apps_loop: `while state["blocking"]` found false, the thread ends
BlockerEnds ==
    /\ pomo # Closed /\ pomo.threads.test > 0 /\ ~ pomo.blocking
    /\ pomo' = [pomo EXCEPT !.threads.test = @ - 1]
    /\ UNCHANGED <<tasksVars, modal, tpomo, hosts>>

\* block_apps_loop: kill_blocked(); time.sleep(0.75)
BlockerKills ==
    /\ pomo # Closed /\ pomo.threads.kill > 0
    /\ pomo' = [pomo EXCEPT !.threads.kill = @ - 1, !.threads.test = @ + 1]
    /\ UNCHANGED <<tasksVars, modal, tpomo, hosts>>

\* the buttons of the modal of src/GUI.py, and its callback
ModalStart ==
    /\ modal.open
    /\ modal' = modal_start_timer(modal)
    /\ UNCHANGED <<tasksVars, pomo, tpomo, hosts>>

ModalPause ==
    /\ modal.open
    /\ modal' = modal_pause_timer(modal)
    /\ UNCHANGED <<tasksVars, pomo, tpomo, hosts>>

ModalReset ==
    /\ modal.open
    /\ modal' = modal_reset_timer(modal)
    /\ UNCHANGED <<tasksVars, pomo, tpomo, hosts>>

ModalClose ==
    /\ modal.open
    /\ modal' = modal_close_win(modal)
    /\ UNCHANGED <<tasksVars, pomo, tpomo, hosts>>

ModalFire ==
    /\ modal.open /\ modal.pending > 0
    /\ modal' = modal_timer_tick([modal EXCEPT !.pending = @ - 1,
                                               !.aid = IF modal.pending = 1 /\ modal.aid = "live"
                                                       THEN "fired" ELSE @])
    /\ UNCHANGED <<tasksVars, pomo, tpomo, hosts>>

NextUi ==
    \/ UiStart \/ UiPause \/ UiReset \/ UiClose \/ UiFire
    \/ ModalStart \/ ModalPause \/ ModalReset \/ ModalClose \/ ModalFire
    \/ BlockerBegins \/ BlockerLoops \/ BlockerEnds \/ BlockerKills

SpecUi == InitUi /\ [][NextUi]_vars

----------------------------------------------------------------------------
(* src/OSProject/pomodoro.py: start_pomodoro, the countdown.  The thread    *)
(* `timer` and the main thread both assign the closure variable             *)
(* remaining_seconds with an augmented assignment, which reads the variable *)
(* and stores the result in two steps with no lock; treg and mreg are the   *)
(* values read.  added and ticks are history: the seconds added by the      *)
(* extensions done and the decrements done.                                 *)

\* duration_minutes, and the N of '+N'
TimerInputs == {1}
ExtendInputs == {1}

InitTimer ==
    /\ frontend = "terminal"
    /\ file = <<>>
    /\ data = EmptyStore
    /\ upc = "loaded"
    /\ rpc = "sleep"
    /\ rdata = EmptyStore
    /\ rnow = 0
    /\ now = 535
    /\ last = NoCall
    /\ assigned = <<>>
    /\ rewardSum = 0
    /\ reminded = <<>>
    /\ tpomo \in { [open |-> TRUE, duration_minutes |-> m, remaining |-> m * 60,
                    tpc |-> "test", treg |-> 0, mpc |-> "input", mreg |-> 0, extra |-> 0,
                    added |-> 0, ticks |-> 0, extends |-> 0] : m \in TimerInputs }
    /\ pomo = Closed /\ modal = Closed /\ hosts = Closed

\* timer: while remaining_seconds > 0 and not stop_timer.is_set(); the print
TimerTest ==
    /\ tpomo.open /\ tpomo.tpc = "test"
    /\ tpomo' = [tpomo EXCEPT !.tpc = IF tpomo.remaining > 0 THEN "sleep" ELSE "done"]
    /\ UNCHANGED <<tasksVars, pomo, modal, hosts>>

\* timer: time.sleep(1) returns, remaining_seconds is read
TimerLoad ==
    /\ tpomo.open /\ tpomo.tpc = "sleep"
    /\ tpomo' = [tpomo EXCEPT !.treg = tpomo.remaining, !.tpc = "store"]
    /\ UNCHANGED <<tasksVars, pomo, modal, hosts>>

\* timer: remaining_seconds is assigned the value read, less one
TimerStore ==
    /\ tpomo.open /\ tpomo.tpc = "store"
    /\ tpomo' = [tpomo EXCEPT !.remaining = tpomo.treg - 1, !.treg = 0,
                              !.ticks = @ + 1, !.tpc = "test"]
    /\ UNCHANGED <<tasksVars, pomo, modal, hosts>>

\* main thread: t.is_alive() was true, the user types '+N'; remaining_seconds is read
MainLoad ==
    /\ tpomo.open /\ tpomo.mpc = "input" /\ tpomo.tpc # "done"
    /\ tpomo.extends < MaxExtends
    /\ \E n \in ExtendInputs :
        tpomo' = [tpomo EXCEPT !.mreg = tpomo.remaining, !.extra = n * 60,
                               !.extends = @ + 1, !.mpc = "store"]
    /\ UNCHANGED <<tasksVars, pomo, modal, hosts>>

\* main thread: remaining_seconds is assigned the value read, plus extra * 60
MainStore ==
    /\ tpomo.open /\ tpomo.mpc = "store"
    /\ tpomo' = [tpomo EXCEPT !.remaining = tpomo.mreg + tpomo.extra, !.mreg = 0,
                              !.added = @ + tpomo.extra, !.extra = 0, !.mpc = "input"]
    /\ UNCHANGED <<tasksVars, pomo, modal, hosts>>

\* main thread: t.is_alive() is false, the loop ends
MainReturn ==
    /\ tpomo.open /\ tpomo.mpc = "input" /\ tpomo.tpc = "done"
    /\ tpomo' = [tpomo EXCEPT !.mpc = "returned"]
    /\ UNCHANGED <<tasksVars, pomo, modal, hosts>>

NextTimer ==
    \/ TimerTest \/ TimerLoad \/ TimerStore
    \/ MainLoad \/ MainStore \/ MainReturn

SpecTimer == InitTimer /\ [][NextTimer]_vars

----------------------------------------------------------------------------
(* src/OSProject/pomodoro.py: start_pomodoro, the hosts file.  The text of  *)
(* the file is a sequence of pieces, "\n" ending a line; a site is one      *)
(* piece and no site is part of another piece, so `site in text` is the     *)
(* occurrence of the piece.  before is history: the text when               *)
(* start_pomodoro was called.                                               *)

redirect_ip == "127.0.0.1"

Sites == {"a.com", "b.com"}

\* site in text
mentions(text, site) == \E i \in DOMAIN text : text[i] = site

\* for site in blocked_sites: if site not in content: file.write(f"{redirect_ip} {site}\n")
RECURSIVE block_writes(_, _)
block_writes(content, blocked_sites) ==
    IF blocked_sites = <<>> THEN <<>>
    ELSE (IF mentions(content, Head(blocked_sites)) THEN <<>>
          ELSE <<redirect_ip, " ", Head(blocked_sites), "\n">>)
         \o block_writes(content, Tail(blocked_sites))

\* file.readlines(): the lines with their line ends, the last one may have none
RECURSIVE readlines(_)
readlines(text) ==
    IF text = <<>> THEN <<>>
    ELSE LET ends == {i \in DOMAIN text : text[i] = "\n"}
             k == IF ends = {} THEN Len(text)
                  ELSE CHOOSE i \in ends : \A j \in ends : i <= j
         IN  <<SubSeq(text, 1, k)>> \o readlines(SubSeq(text, k + 1, Len(text)))

\* for line in lines: if not any(site in line for site in blocked_sites): file.write(line)
RECURSIVE unblock_writes(_, _)
unblock_writes(lines, blocked_sites) ==
    IF lines = <<>> THEN <<>>
    ELSE (IF \E i \in DOMAIN blocked_sites : mentions(Head(lines), blocked_sites[i])
          THEN <<>> ELSE Head(lines))
         \o unblock_writes(Tail(lines), blocked_sites)

\* lines a hosts file may hold when start_pomodoro is called
HostsLines ==
    { <<"127.0.0.1", " ", "localhost", "\n">>,
      <<"127.0.0.1", " ", "a.com", "\n">>,
      <<"#", " ", "b.com", "\n">>,
      <<"10.0.0.1", " ", "www.", "a.com", "\n">> }

\* files of at most two lines, the last one with or without its line end
HostsFiles ==
    LET whole == {<<>>} \cup HostsLines \cup {l \o m : l \in HostsLines, m \in HostsLines}
    IN  whole \cup {SubSeq(f, 1, Len(f) - 1) : f \in whole \ {<<>>}}

\* blocked_sites: the empty list stands for None too, `if blocked_sites` is false for both
BlockedInputs == {<<>>} \cup {<<s>> : s \in Sites} \cup {<<s, t>> : s \in Sites, t \in Sites}

InitHosts ==
    /\ frontend = "terminal"
    /\ file = <<>>
    /\ data = EmptyStore
    /\ upc = "loaded"
    /\ rpc = "sleep"
    /\ rdata = EmptyStore
    /\ rnow = 0
    /\ now = 535
    /\ last = NoCall
    /\ assigned = <<>>
    /\ rewardSum = 0
    /\ reminded = <<>>
    /\ hosts \in { [open |-> TRUE, phase |-> "block", content |-> f, before |-> f,
                    blocked_sites |-> b, real_block |-> r, system |-> s, admin |-> a] :
                   f \in HostsFiles, b \in BlockedInputs, r \in BOOLEAN,
                   s \in {"Windows", "Linux"}, a \in BOOLEAN }
    /\ pomo = Closed /\ modal = Closed /\ tpomo = Closed

\* start_pomodoro, lines 18-30: the sites are written after the text read
Block ==
    /\ hosts.open /\ hosts.phase = "block"
    /\ hosts' =
        IF hosts.blocked_sites # <<>> /\ hosts.real_block /\ hosts.system = "Windows" /\ hosts.admin
        THEN [hosts EXCEPT !.content = @ \o block_writes(hosts.content, hosts.blocked_sites),
                           !.phase = "timer"]
        ELSE [hosts EXCEPT !.phase = "timer"]
    /\ UNCHANGED <<tasksVars, pomo, modal, tpomo>>

\* start_pomodoro, lines 32-59: the countdown ends and the input loop is left
Countdown ==
    /\ hosts.open /\ hosts.phase = "timer"
    /\ hosts' = [hosts EXCEPT !.phase = "unblock"]
    /\ UNCHANGED <<tasksVars, pomo, modal, tpomo>>

\* start_pomodoro, lines 62-72: the lines naming no blocked site are written back
Unblock ==
    /\ hosts.open /\ hosts.phase = "unblock"
    /\ hosts' =
        IF hosts.blocked_sites # <<>> /\ hosts.real_block /\ hosts.system = "Windows" /\ hosts.admin
        THEN [hosts EXCEPT !.content = unblock_writes(readlines(hosts.content), hosts.blocked_sites),
                           !.phase = "returned"]
        ELSE [hosts EXCEPT !.phase = "returned"]
    /\ UNCHANGED <<tasksVars, pomo, modal, tpomo>>

NextHosts == Block \/ Countdown \/ Unblock

SpecHosts == InitHosts /\ [][NextHosts]_vars

----------------------------------------------------------------------------
(* Properties *)

\* the persisted store, as load_data() would return it
Persisted == load_data(file)

\* the store the next lifecycle operation works on
Current == IF frontend = "terminal" THEN data ELSE Persisted

\* every copy of the store the program holds
Stores == {data, Persisted, rdata}

Has(d, id) == find(d.tasks, id) # 0

Get(d, id) == d.tasks[find(d.tasks, id)]

\* C1: the ids assigned by successive adds are strictly increasing in
\* assignment order, so no id is ever assigned twice.
AssignedIdsIncrease ==
    \A i, j \in DOMAIN assigned : i < j => assigned[i] < assigned[j]

\* C2: in every store reachable by add, delete and complete, the ids of the
\* tasks are pairwise distinct.
IdsPairwiseDistinct ==
    \A S \in Stores : \A i, j \in DOMAIN S.tasks :
        i # j => S.tasks[i].id # S.tasks[j].id

TwoTasksAdded ==
    /\ last.op = "add" /\ last.ret # None
    /\ Len(Current.tasks) = 2

\* C3: a completion call on a task that is already completed returns reward 0
\* (mark_complete_data: with the task) and changes neither points nor any
\* task, nor what is persisted.
SecondCompleteIsNoOp ==
    [][ /\ last'.op = "complete" /\ Has(data, last'.arg)
        /\ Get(data, last'.arg).completed
        /\ CompleteSelected \/ TermComplete
        => /\ last'.raised = ""
           /\ last'.reward = 0
           /\ frontend = "gui" => last'.ret = <<Get(data, last'.arg)>>
           /\ frontend = "terminal" => data' = data
           /\ file' = file
           /\ rewardSum' = rewardSum ]_vars

CompletedTwice ==
    /\ last.op = "complete" /\ last.raised = "" /\ last.reward = 0
    /\ Has(Current, last.arg) /\ Get(Current, last.arg).completed
    /\ Current.points > 0

\* C4: after any sequence of add, delete and complete, points equals the sum
\* of the rewards the completions returned; a delete takes nothing away.
PointsEqualRewardSum ==
    /\ Persisted.points = rewardSum
    /\ (frontend = "terminal" \/ upc = "loaded") => data.points = rewardSum

CompletedTaskDeleted ==
    /\ last.op = "delete" /\ last.ret # None /\ last.ret[1].completed
    /\ Current.points > 0

\* C5: in every store, a task has a completed_at if and only if it is completed.
CompletedAtIffCompleted ==
    \A S \in Stores : \A i \in DOMAIN S.tasks :
        (S.tasks[i].completed_at # None) <=> S.tasks[i].completed

OneDoneOnePending ==
    \E i, j \in DOMAIN Persisted.tasks :
        Persisted.tasks[i].completed /\ ~ Persisted.tasks[j].completed

\* C6: no step (add, delete of another task, complete, reminder evaluation)
\* takes a completed task of the persisted store back to pending or rewrites
\* its completed_at.
CompletedNeverReverts ==
    [][ \A i \in DOMAIN Persisted.tasks : \A j \in DOMAIN Persisted'.tasks :
            /\ Persisted.tasks[i].completed
            /\ Persisted'.tasks[j].id = Persisted.tasks[i].id
            => /\ Persisted'.tasks[j].completed
               /\ Persisted'.tasks[j].completed_at = Persisted.tasks[i].completed_at ]_vars

\* the calendar day an instant falls on, counted from 2025-01-10
DayOf(t) == CHOOSE n \in 0 .. 2 : n * 1440 <= t /\ t < (n + 1) * 1440

\* C7: a completion of a pending task returns 10 when the day of completion
\* is on or before the day of the deadline and 5 otherwise, whatever the
\* times of day.
RewardByCalendarDate ==
    last.op = "complete" /\ last.reward # 0
    => LET task == last.ret[1] IN
       last.reward = IF DayOf(task.completed_at[1]) <= DayOf(strptime(task.deadline)[1])
                     THEN 10 ELSE 5

\* two tasks due 2025-01-10 09:00: one completed that day at 23:00, one the
\* next day at 00:01
SameDayAndNextDay ==
    /\ rewardSum = 15
    /\ \E i, j \in DOMAIN Current.tasks :
        /\ Current.tasks[i].deadline = "2025-01-10 09:00"
        /\ Current.tasks[i].completed_at = <<1380>>
        /\ Current.tasks[j].deadline = "2025-01-10 09:00"
        /\ Current.tasks[j].completed_at = <<1441>>

\* a is not after b in the order (deadline, priority, duration_hours, id)
NotAfter(a, b) ==
    LET da == strptime(a.deadline)[1]
        db == strptime(b.deadline)[1]
    IN  \/ da < db
        \/ da = db /\ a.priority < b.priority
        \/ da = db /\ a.priority = b.priority /\ a.duration_hours < b.duration_hours
        \/ da = db /\ a.priority = b.priority /\ a.duration_hours = b.duration_hours
              /\ a.id <= b.id

\* C8: what suggest_edf returns is sorted ascending by
\* (deadline, priority, duration_hours, id).
EdfSortedByKey ==
    last.op = "edf" /\ last.raised = ""
    => \A i, j \in DOMAIN last.ret : i < j => NotAfter(last.ret[i], last.ret[j])

EdfReordered ==
    /\ last.op = "edf" /\ Len(last.ret) = 2
    /\ last.ret[1].id > last.ret[2].id
    /\ last.ret[1].deadline = last.ret[2].deadline

\* C9: suggest_edf returns exactly the tasks that are not completed, each
\* once, and the empty sequence exactly when there is none.
EdfIsThePending ==
    last.op = "edf"
    => /\ last.raised = ""
       /\ \A j \in DOMAIN last.ret : ~ last.ret[j].completed
       /\ \A i \in DOMAIN Current.tasks :
            Cardinality({ j \in DOMAIN last.ret : last.ret[j] = Current.tasks[i] })
                = IF Current.tasks[i].completed THEN 0 ELSE 1
       /\ \A j \in DOMAIN last.ret : \E i \in DOMAIN Current.tasks :
            last.ret[j] = Current.tasks[i]
       /\ (last.ret = <<>>) <=> (\A i \in DOMAIN Current.tasks : Current.tasks[i].completed)

EdfLeavesOutCompleted ==
    /\ last.op = "edf" /\ Len(last.ret) = 1
    /\ Len(Current.tasks) = 2

\* C10: every task of a store has a non-empty name, a positive duration and
\* a priority in 1..5, an add with other values having been refused.
AddValidatesInput ==
    \A i \in DOMAIN Persisted.tasks :
        /\ Persisted.tasks[i].name # ""
        /\ Persisted.tasks[i].duration_hours > 0
        /\ Persisted.tasks[i].priority >= 1
        /\ Persisted.tasks[i].priority <= 5

\* C11: an add whose deadline text does not parse fails with a validation
\* error and changes nothing: the persisted store (tasks and points) is as
\* before, and the id the next add gets is the one it would have got.
AddRejectsBadDeadline ==
    [][\A in \in OpsInputs :
         (/\ strptime(in.deadline) = None
          /\ in.name # ""
          /\ frontend = "gui" /\ upc = "loaded"
          /\ Returned("add", 0, add_task_data(data, in.name, in.deadline,
                                              in.duration_hours, in.priority, now)))
         => /\ last'.raised = "ValueError"
            /\ file' = file
            /\ Persisted'.tasks = data.tasks
            /\ Persisted'.points = data.points
            /\ assigned' = assigned
            /\ next_id(Persisted'.tasks) = next_id(data.tasks)]_vars

BadDeadlineRefused ==
    /\ last.op = "add" /\ last.raised = "ValueError"
    /\ Len(Persisted.tasks) = 1
    /\ Len(assigned) = 1

\* C12: a delete or a completion with an id that no task has reports that
\* the task was not found and leaves the tasks, the points and the persisted
\* store as they were.
MissingIdChangesNothing ==
    [][(/\ last'.op \in {"delete", "complete"}
        /\ ~ Has(data, last'.arg)
        /\ DeleteSelected \/ CompleteSelected \/ TermDelete \/ TermComplete)
       => /\ file' = file
          /\ Persisted' = Persisted
          /\ rewardSum' = rewardSum
          /\ last'.ret = None /\ last'.reward = 0 /\ ~ last'.notify
          /\ frontend = "gui" => last'.raised = "KeyError"
          /\ frontend = "terminal" => data' = data]_vars

MissingIdRefused ==
    /\ last.op \in {"delete", "complete"}
    /\ ~ Has(Current, last.arg)
    /\ Len(Current.tasks) = 1
    /\ last.ret = None

\* the ids of the tasks a reminder was notified for
RemindedIds == { reminded[i].id : i \in DOMAIN reminded }

\* C13: with evaluations and restarts only after it, a task is notified for
\* once: no task has two reminders, the flag of a notified task is set in the
\* persisted store, and an evaluation that has loaded the store, even at a
\* later minute of the window or after a restart, does not find it due.
RemindedOnce ==
    /\ \A i, j \in DOMAIN reminded : reminded[i].id = reminded[j].id => i = j
    /\ \A id \in RemindedIds :
        /\ Has(Persisted, id)
        /\ Get(Persisted, id).reminder_sent
    /\ rpc = "loaded"
        => \A i \in DOMAIN rdata.tasks :
             rdata.tasks[i].id \in RemindedIds => ~ due_soon(rdata.tasks[i], rnow)

ReevaluatedAfterRestart ==
    /\ reminded = <<[id |-> 1, at |-> 535]>>
    /\ frontend = "terminal"
    /\ Has(data, 1) /\ Get(data, 1).reminder_sent
    /\ rpc = "loaded" /\ rnow = 540
    /\ Has(rdata, 1)
    /\ ~ Get(rdata, 1).completed
    /\ strptime(Get(rdata, 1).deadline) = <<540>>

\* C14: one evaluation at `now` notifies for a task, and sets its reminder
\* flag, exactly when the task is not completed, its flag is not set yet and
\* now <= deadline <= now + 10 minutes, both ends included; the flag of any
\* other task stays as it was.
EvaluationReportsDue ==
    [][(rpc = "loaded" /\ rpc' = "sleep" /\ RemSave)
       => /\ Len(Persisted'.tasks) = Len(rdata.tasks)
          /\ \A i \in DOMAIN rdata.tasks :
               LET task     == rdata.tasks[i]
                   deadline == strptime(task.deadline)[1]
                   due      == /\ ~ task.completed
                               /\ ~ task.reminder_sent
                               /\ rnow <= deadline
                               /\ deadline <= rnow + 10
                   reported == \E k \in DOMAIN reminded' :
                                  /\ k > Len(reminded)
                                  /\ reminded'[k] = [id |-> task.id, at |-> rnow]
               IN  /\ reported <=> due
                   /\ Persisted'.tasks[i].reminder_sent <=> (task.reminder_sent \/ due)]_vars

ReportedAtBothEnds ==
    /\ \E i \in DOMAIN reminded : reminded[i].at = 540
    /\ \E i \in DOMAIN reminded : reminded[i].at = 1435
    /\ \A i \in DOMAIN Persisted.tasks :
         \E k \in DOMAIN reminded :
            /\ reminded[k].id = Persisted.tasks[i].id
            /\ strptime(Persisted.tasks[i].deadline)[1] \in {reminded[k].at, reminded[k].at + 10}

\* C15: a reminder flag that is set in the persisted store is still set there
\* when an add, a delete of another task or a completion has saved.
FlagSurvivesLifecycle ==
    [][(\/ Submit(FewInputs) \/ DeleteSelected \/ CompleteSelected
        \/ TermAdd(FewInputs) \/ TermDelete \/ TermComplete)
       => \A i \in DOMAIN Persisted.tasks :
            (Persisted.tasks[i].reminder_sent /\ Has(Persisted', Persisted.tasks[i].id))
            => Get(Persisted', Persisted.tasks[i].id).reminder_sent]_vars

\* C16: the save of a reminder evaluation keeps what the lifecycle operations
\* have persisted: the same tasks, none of them back to pending, and no fewer
\* points.
EvaluationKeepsLifecycleEffect ==
    [][(rpc = "loaded" /\ rpc' = "sleep" /\ RemSave)
       => /\ \A i \in DOMAIN Persisted.tasks : Has(Persisted', Persisted.tasks[i].id)
          /\ \A i \in DOMAIN Persisted'.tasks : Has(Persisted, Persisted'.tasks[i].id)
          /\ \A i \in DOMAIN Persisted.tasks :
               (Persisted.tasks[i].completed /\ Has(Persisted', Persisted.tasks[i].id))
               => Get(Persisted', Persisted.tasks[i].id).completed
          /\ Persisted'.points >= Persisted.points]_vars

\* C17: no load_data() of one thread runs into the file while a save of the
\* other thread has it half written: no handler and no reminder evaluation
\* fails to decode the store.
LoadsSeeWholeStore ==
    /\ last.raised # "JSONDecodeError"
    /\ rpc # "failed"

\* the store d after the call recorded in l, from what the call returned
Applied(d, l) ==
    CASE l.op = "add"      -> [d EXCEPT !.tasks = Append(@, l.ret[1])]
      [] l.op = "delete"   -> [d EXCEPT !.tasks = remove(@, l.ret[1])]
      [] l.op = "complete" ->
            [tasks  |-> [i \in DOMAIN d.tasks |->
                            IF d.tasks[i].id = l.arg THEN l.ret[1] ELSE d.tasks[i]],
             points |-> d.points + l.reward]

\* C18: when an add, a delete or a completion has returned successfully, the
\* persisted store is the in-memory store the operation was applied to: the
\* same tasks in the same order with the same fields, and the same points.
SavedIsInMemoryStore ==
    [][(/\ last'.op \in {"add", "delete", "complete"}
        /\ last'.raised = "" /\ last'.ret # None
        /\ \/ Submit(OpsInputs) \/ DeleteSelected \/ CompleteSelected
           \/ TermAdd(OpsInputs) \/ TermDelete \/ TermComplete)
       => /\ file' # <<>>
          /\ frontend = "terminal" => Persisted' = data'
          /\ Persisted' = Applied(data, last')]_vars

CompletionSaved ==
    /\ last.op = "complete" /\ last.reward > 0
    /\ Len(Persisted.tasks) = 2
    /\ Persisted.points = last.reward
    /\ \E i \in DOMAIN Persisted.tasks : ~ Persisted.tasks[i].completed

\* C19: a load after the save of the store a load returned gives that store
\* again, tasks in order with every field and the reminder flag, and points;
\* and a load after any save gives the saved store, whatever the file held
\* before.
SaveLoadRoundTrip ==
    [][/\ (last.op = "save" /\ last.arg = 1 /\ JsonLoad) => data' = data
       /\ (upc = "loaded" /\ JsonSave) => load_text(file') = data]_vars

RoundTripOfFlaggedStore ==
    /\ last.op = "load" /\ last.arg = 2
    /\ data.points = 10
    /\ Len(data.tasks) = 2
    /\ data.tasks[1].id = 2
    /\ data.tasks[2].reminder_sent /\ data.tasks[2].completed

\* C20: with no tasks.json a load gives no tasks and 0 points; the first add
\* gets id 1; with that task alone and pending, suggest_edf returns exactly
\* it; its completion on or before the day of the deadline returns 10 and
\* makes the points 10; suggest_edf then returns nothing.
FirstTaskScenario ==
    /\ file = <<>> => Persisted = [tasks |-> <<>>, points |-> 0]
    /\ assigned # <<>> => assigned[1] = 1
    /\ (Len(assigned) = 1 /\ Len(Current.tasks) = 1)
       => /\ Current.tasks[1].id = 1
          /\ (last.op = "edf" /\ ~ Current.tasks[1].completed)
             => last.ret = <<Current.tasks[1]>>
          /\ (/\ last.op = "complete" /\ last.arg = 1 /\ last.ret # None
              /\ rewardSum = last.reward
              /\ DayOf(Current.tasks[1].completed_at[1])
                    <= DayOf(strptime(Current.tasks[1].deadline)[1]))
             => /\ last.reward = 10
                /\ Current.points = 10
          /\ (last.op = "edf" /\ Current.tasks[1].completed) => last.ret = <<>>

FirstTaskDone ==
    /\ assigned = <<1>>
    /\ Len(Current.tasks) = 1 /\ Current.tasks[1].completed
    /\ Current.points = 10
    /\ last.op = "edf" /\ last.ret = <<>>

\* C21: next_id is 1 for an empty list of tasks and otherwise one more than
\* the greatest id in the list, wherever in the list that id stands.
NextIdIsMaxPlusOne ==
    \A d \in Stores :
        IF d.tasks = <<>>
        THEN next_id(d.tasks) = 1
        ELSE /\ \E i \in DOMAIN d.tasks : next_id(d.tasks) = d.tasks[i].id + 1
             /\ \A i \in DOMAIN d.tasks : next_id(d.tasks) > d.tasks[i].id

AddedAfterUnorderedIds ==
    /\ last.op = "add" /\ last.ret # None
    /\ last.ret[1].id = 4
    /\ Len(Current.tasks) = 3
    /\ Current.tasks[1].id = 3 /\ Current.tasks[2].id = 1

\* C22: a successful add puts one task at the end of the tasks, with the id
\* next_id gives for the tasks before it, not completed and with no
\* completed_at; it returns that task; the tasks before it are as they were,
\* in the same order, and the points are unchanged.
AddAppendsOneTask ==
    [][(/\ last'.op = "add" /\ last'.raised = "" /\ last'.ret # None
        /\ Submit(OpsInputs) \/ TermAdd(OpsInputs))
       => LET task == last'.ret[1] IN
          /\ Len(Persisted'.tasks) = Len(data.tasks) + 1
          /\ Persisted'.tasks[Len(Persisted'.tasks)] = task
          /\ SubSeq(Persisted'.tasks, 1, Len(data.tasks)) = data.tasks
          /\ Persisted'.points = data.points
          /\ task.id = next_id(data.tasks)
          /\ ~ task.completed
          /\ task.completed_at = None
          /\ frontend = "terminal" => data' = Persisted']_vars

AddedAfterCompletedTask ==
    /\ last.op = "add" /\ last.ret # None
    /\ Len(Persisted.tasks) = 2
    /\ Persisted.tasks[1].completed
    /\ Persisted.points > 0
    /\ Persisted.tasks[2] = last.ret[1]

\* C23: a successful delete removes the one task with the id and returns it;
\* the other tasks are as they were, in the same order, and the points are
\* unchanged, also when the task removed was completed.
DeleteRemovesOneTask ==
    [][(/\ last'.op = "delete" /\ last'.raised = "" /\ last'.ret # None
        /\ DeleteSelected \/ TermDelete)
       => LET k == CHOOSE i \in DOMAIN data.tasks : data.tasks[i].id = last'.arg IN
          /\ last'.ret[1] = data.tasks[k]
          /\ Persisted'.tasks = SubSeq(data.tasks, 1, k - 1)
                                \o SubSeq(data.tasks, k + 1, Len(data.tasks))
          /\ \A i \in DOMAIN Persisted'.tasks : Persisted'.tasks[i].id # last'.arg
          /\ Persisted'.points = data.points
          /\ frontend = "terminal" => data' = Persisted']_vars

FirstOfTwoDeletedCompleted ==
    /\ last.op = "delete" /\ last.ret # None
    /\ last.ret[1].completed /\ last.ret[1].id = 1
    /\ Len(Persisted.tasks) = 1
    /\ Persisted.points = 10

\* C24: an evaluation passes over a task whose deadline does not parse, does
\* not notify for it and leaves it as it is, and still notifies for and flags
\* every other task that is due, before it and after it in the list.
UnparseableDeadlineSkipped ==
    [][(rpc = "loaded" /\ rpc' = "sleep" /\ RemSave)
       => /\ Len(Persisted'.tasks) = Len(rdata.tasks)
          /\ \A i \in DOMAIN rdata.tasks :
               LET task == rdata.tasks[i]
                   reported == \E k \in DOMAIN reminded' :
                                  k > Len(reminded) /\ reminded'[k].id = task.id
               IN  IF strptime(task.deadline) = None
                   THEN ~ reported /\ Persisted'.tasks[i] = task
                   ELSE (/\ ~ task.completed /\ ~ task.reminder_sent
                         /\ rnow <= strptime(task.deadline)[1]
                         /\ strptime(task.deadline)[1] <= rnow + 10)
                        => reported /\ Persisted'.tasks[i].reminder_sent]_vars

RemindedAroundUnparseable ==
    /\ Len(reminded) = 2
    /\ Len(Persisted.tasks) = 3
    /\ strptime(Persisted.tasks[2].deadline) = None
    /\ ~ Persisted.tasks[2].completed /\ ~ Persisted.tasks[2].reminder_sent
    /\ Persisted.tasks[1].reminder_sent
    /\ Persisted.tasks[3].reminder_sent

\* what the operation op with argument arg may have changed of the tasks of
\* the store it was given, in the store it leaves
Frame(before, after, op, arg) ==
    \A i \in DOMAIN before.tasks : \A j \in DOMAIN after.tasks :
        before.tasks[i].id = after.tasks[j].id
        => LET a == before.tasks[i]
               b == after.tasks[j]
           IN  /\ a.name = b.name
               /\ a.deadline = b.deadline
               /\ a.duration_hours = b.duration_hours
               /\ a.priority = b.priority
               /\ a.created_at = b.created_at
               /\ (a.completed # b.completed \/ a.completed_at # b.completed_at)
                  => (op = "complete" /\ arg = a.id /\ ~ a.completed /\ b.completed)
               /\ (a.reminder_sent # b.reminder_sent)
                  => (op = "evaluate" /\ b.reminder_sent)

EvaluationChangesFlagsOnly ==
    [][(rpc = "loaded" /\ rpc' = "sleep" /\ RemSave)
       => /\ Persisted'.points = rdata.points
          /\ DOMAIN Persisted'.tasks = DOMAIN rdata.tasks
          /\ \A i \in DOMAIN rdata.tasks :
               /\ [Persisted'.tasks[i] EXCEPT !.reminder_sent = rdata.tasks[i].reminder_sent]
                  = rdata.tasks[i]
               /\ Persisted'.tasks[i].reminder_sent # rdata.tasks[i].reminder_sent
                  => /\ Persisted'.tasks[i].reminder_sent
                     /\ \E k \in DOMAIN reminded' :
                          k > Len(reminded) /\ reminded'[k].id = rdata.tasks[i].id]_vars

RemindedBesideCompleted ==
    /\ rpc = "sleep" /\ reminded # <<>>
    /\ Persisted.points = 10
    /\ Len(Persisted.tasks) = 3
    /\ Persisted.tasks[1].completed /\ Persisted.tasks[1].completed_at = <<535>>
    /\ ~ Persisted.tasks[1].reminder_sent
    /\ Persisted.tasks[2].reminder_sent
    /\ ~ Persisted.tasks[3].reminder_sent

\* the stores that hold the tasks of d with two of them exchanged; every
\* insertion order of the same tasks is reached by such exchanges
Reordered(d) ==
    { [d EXCEPT !.tasks = [i \in DOMAIN d.tasks |->
                              IF i = p[1] THEN d.tasks[p[2]]
                              ELSE IF i = p[2] THEN d.tasks[p[1]]
                              ELSE d.tasks[i]]] :
        p \in (DOMAIN d.tasks) \X (DOMAIN d.tasks) }

\* C28: suggest_edf returns the same sequence when the same tasks were inserted
\* in another order, and no two distinct pending tasks have the same sort key.
EdfIgnoresInsertionOrder ==
    [][(last'.op = "edf" /\ (ShowEdf \/ TermEdf))
       => /\ \A d \in Reordered(data) :
               /\ suggest_edf(d).raised = last'.raised
               /\ suggest_edf(d).ret = last'.ret
               /\ print_edf(d).ret = last'.ret
          /\ last'.raised = ""
             => \A i, j \in DOMAIN last'.ret :
                   edf_key(last'.ret[i]) = edf_key(last'.ret[j]) => i = j]_vars

EdfOfTiedTasksInsertedBackwards ==
    /\ last.op = "edf" /\ last.raised = ""
    /\ Len(last.ret) = 3
    /\ last.ret[1].id = 1 /\ last.ret[2].id = 2
    /\ last.ret[1].deadline = last.ret[2].deadline
    /\ last.ret[1].priority = last.ret[2].priority
    /\ last.ret[1].duration_hours = last.ret[2].duration_hours
    /\ Len(Persisted.tasks) = 3
    /\ Persisted.tasks[1].id = 2 /\ Persisted.tasks[3].id = 1

\* C29: suggest_edf only reads: the call leaves the tasks of the store, their
\* insertion order and fields, and the points as they were, and saves nothing.
EdfReadsOnly ==
    [][(last'.op = "edf" /\ (ShowEdf \/ TermEdf))
       => /\ file' = file
          /\ frontend = "terminal" => data' = data
          /\ frontend = "gui" => (suggest_edf(data).data = data /\ suggest_edf(data).save = <<>>)
          /\ assigned' = assigned /\ rewardSum' = rewardSum
          /\ ~ last'.notify]_vars

EdfOrderIsNotStoreOrder ==
    /\ frontend = "terminal"
    /\ last.op = "edf" /\ last.raised = ""
    /\ Len(last.ret) = 2 /\ last.ret[1].id = 2 /\ last.ret[2].id = 1
    /\ Len(data.tasks) = 2 /\ data.tasks[1].id = 1 /\ data.tasks[2].id = 2
    /\ Persisted = data

\* C30: on a store whose pending deadlines all parse as "%Y-%m-%d %H:%M", the
\* older script's suggest_edf prints the pending tasks in the order that
\* suggest_edf of src/tasks.py returns and suggest_edf of
\* src/OSProject/tasks.py prints.
EdfImplementationsAgree ==
    [][ScriptEdf
       => ((\A i \in DOMAIN Persisted.tasks :
               Persisted.tasks[i].completed \/ strptime(Persisted.tasks[i].deadline) # None)
           => /\ last'.ret = suggest_edf(Persisted).ret
              /\ last'.ret = print_edf(Persisted).ret)]_vars

\* C31: completing a pending task whose stored deadline does not parse does
\* not fail: the task is persisted as completed with its completion time, and
\* the call awards 5 points, on the day of the deadline text as well.
UnparseableDeadlineAwardsFive ==
    [][(last'.op = "complete" /\ (CompleteSelected \/ TermComplete))
       => \A k \in DOMAIN data.tasks :
            (/\ data.tasks[k].id = last'.arg
             /\ ~ data.tasks[k].completed
             /\ strptime(data.tasks[k].deadline) = None)
            => /\ last'.raised = ""
               /\ last'.reward = 5
               /\ Persisted'.points = data.points + 5
               /\ Persisted'.tasks[k]
                  = [data.tasks[k] EXCEPT !.completed = TRUE, !.completed_at = <<now>>]]_vars

DateOnlyTaskCompletedOnItsDay ==
    /\ last.op = "complete" /\ last.reward = 5 /\ last.raised = ""
    /\ date(now) = 0
    /\ Get(Persisted, last.arg).deadline = "2025-01-10"
    /\ Get(Persisted, last.arg).completed
    /\ Persisted.points = 5

\* C32: a failed evaluation does not end the reminder thread: in both front
\* ends the thread then sleeps for its period and evaluates again.
ReminderThreadSurvivesFailure ==
    rpc = "failed" => ENABLED RemRetry

\* C33: with an evaluation every minute, a task with the deadline 09:00 that
\* was added before 08:59 and is still pending and in the store at 09:01 has
\* been notified at an evaluation between 08:50 and 09:00.
DueTaskWasReminded ==
    now = 541
    => \A i \in DOMAIN Current.tasks :
         LET task == Current.tasks[i] IN
         (/\ ~ task.completed
          /\ strptime(task.deadline) = <<540>>
          /\ task.created_at <= 538)
         => \E k \in DOMAIN reminded :
              /\ reminded[k].id = task.id
              /\ reminded[k].at >= 540 - REMINDER_WINDOW_MIN
              /\ reminded[k].at <= 540

\* C34: the blocker loop of the Pomodoro window goes on to kill processes
\* only while the mode is focus and the timer is running: not after Pause,
\* Reset, the end of the focus period or Close, and not during the break.
BlocksOnlyInRunningFocus ==
    [][BlockerLoops => (pomo.open /\ pomo.mode = "focus" /\ pomo.running)]_vars

\* an open countdown: at most one callback of win.after pending, remaining
\* not below zero
TimerOk(w) == w.open => (w.pending <= 1 /\ w.remaining >= 0)

\* between a Pause and the next Start or Reset
StaysPaused(w, v) == w.open /\ v.open /\ w.paused /\ v.paused

\* C35: in both countdown windows of the GUI, whatever the order of Start,
\* Pause, Reset and the callbacks, at most one tick callback is pending, the
\* remaining seconds are never below zero, a Start while running changes
\* nothing, and the remaining seconds stay as they are while paused.
CountdownIsSound ==
    [][/\ TimerOk(pomo') /\ TimerOk(modal')
       /\ StaysPaused(pomo, pomo') => pomo'.remaining = pomo.remaining
       /\ StaysPaused(modal, modal') => modal'.remaining = modal.remaining
       /\ (UiStart /\ pomo.running) => pomo' = pomo
       /\ (ModalStart /\ modal.running) => modal' = modal]_vars

PausedInBreak ==
    /\ pomo.open /\ pomo.mode = "break" /\ pomo.paused
    /\ pomo.remaining = 58 /\ pomo.pending = 0

\* C36: in the terminal Pomodoro no extension and no decrement is lost: when
\* neither thread is between its read and its write, the remaining seconds
\* are the seconds of the duration plus sixty per minute added less one per
\* decrement done.
NoUpdateLost ==
    (tpomo.open /\ tpomo.tpc # "store" /\ tpomo.mpc # "store")
    => tpomo.remaining = tpomo.duration_minutes * 60 + tpomo.added - tpomo.ticks

\* C37: after a terminal Pomodoro with real blocking has returned, the hosts
\* file holds exactly the text it held when the Pomodoro was started.
HostsRestored ==
    (hosts.open /\ hosts.phase = "returned" /\ hosts.blocked_sites # <<>>
        /\ hosts.real_block /\ hosts.system = "Windows")
    => hosts.content = hosts.before

====
